---- MODULE Spec2Model ----
(***************************************************************************)
(* Model of flatpak_update.py: the Version value type, the GitHub          *)
(* releases resolver, the version orchestrator, the checksum fetcher with  *)
(* its on-disk download cache, the template variable builder, the template *)
(* renderer and main.                                                      *)
(*                                                                         *)
(* Text is modelled as a sequence of one-character strings, so that        *)
(* splitting, parsing and rendering are computed and not assumed.          *)
(***************************************************************************)
EXTENDS Integers, Sequences, FiniteSets, TLC

VARIABLES
    \* ---- Version comparison (Version.__init__, __eq__, __gt__) ----
    va, vb,          \* the two version strings handed to Version(...)
    vcmp,            \* the two Versions and the results of a > b, a == b, a < b
    \* ---- get_version_github_releases ----
    rel_data,        \* response.json(): the sequence of item names
    rel_spec,        \* the spec: substitutions, tags, set_date
    rel_out,         \* the outcome of the resolver
    \* ---- main, get_latest_versions, get_template_vars, render_templates ----
    pc,              \* position of the run
    err,             \* the exception that ended the run, "" if none
    config,          \* the loaded config: runtime spec and module specs
    lk_task,         \* per spec: state of its get_latest_version task
    resolver,        \* per spec: state of the get_version_* coroutine object
    new_versions,    \* name -> value returned by get_latest_versions
    manifest_file,   \* the manifest on disk: parseable or not, and its content
    manifest,        \* the loaded manifest
    current_versions, \* name -> pinned version tuple
    env,             \* the template variable environment
    template_dir,    \* the *.j2 files of the template directory
    outputs,         \* the rendered files: name -> content, when they exist
    attempted,       \* the templates render_templates has got to
    \* ---- get_sha256_set, get_sha256 and the download cache ----
    remote_sha256,   \* the batch: sequence of (name, url), in dict order
    tasks,           \* per batch entry: the get_sha256 task
    cache_dir,       \* whether .cache exists
    cache,           \* the files of .cache: basename -> content
    requests,        \* the GET requests issued: (run, url)
    runs             \* number of the current run of the tool

verVars == <<va, vb, vcmp>>
relVars == <<rel_data, rel_spec, rel_out>>
lookupVars == <<lk_task, resolver>>
renderVars == <<template_dir, outputs, attempted>>
inputVars == <<config, manifest_file>>
sumVars == <<remote_sha256, tasks, cache_dir, cache, requests>>
mainVars == <<pc, err, config, lk_task, resolver, new_versions, manifest_file,
              manifest, current_versions, env, template_dir, outputs,
              attempted, remote_sha256, tasks, cache_dir, cache, requests,
              runs>>
vars == <<va, vb, vcmp, rel_data, rel_spec, rel_out, pc, err, config, lk_task,
          resolver, new_versions, manifest_file, manifest, current_versions,
          env, template_dir, outputs, attempted, remote_sha256, tasks,
          cache_dir, cache, requests, runs>>

-----------------------------------------------------------------------------
(* Bounds *)
MaxLen == 3          \* longest version tuple drawn as an input
MaxItems == 3        \* most releases/tags in one API response
MaxModules == 2      \* most modules in a config drawn for main
BodyLen == 2         \* chunks in the body streamed for a URL
ReadSize == 2        \* bytes one file_.read returns (2 ** 16 in the code)
MaxRuns == 2         \* runs of the tool over one download cache

-----------------------------------------------------------------------------
(* Text helpers *)

DigitChars == <<"0", "1", "2", "3", "4", "5", "6", "7", "8", "9">>

IsDigit(c) == \E i \in 1..10 : DigitChars[i] = c

DigitVal(c) == (CHOOSE i \in 1..10 : DigitChars[i] = c) - 1

\* str.split(sep) for a one-character separator
RECURSIVE SplitAcc(_, _, _)
SplitAcc(s, sep, cur) ==
    IF s = <<>> THEN <<cur>>
    ELSE IF Head(s) = sep THEN <<cur>> \o SplitAcc(Tail(s), sep, <<>>)
    ELSE SplitAcc(Tail(s), sep, Append(cur, Head(s)))

Split(s, sep) == SplitAcc(s, sep, <<>>)

\* int(x) succeeds on a non-empty run of decimal digits
IsIntStr(s) == s # <<>> /\ \A i \in 1..Len(s) : IsDigit(s[i])

RECURSIVE ParseIntAcc(_, _)
ParseIntAcc(s, acc) ==
    IF s = <<>> THEN acc ELSE ParseIntAcc(Tail(s), acc * 10 + DigitVal(Head(s)))

ParseInt(s) == ParseIntAcc(s, 0)

\* str(p) for a non-negative integer
RECURSIVE IntToStr(_)
IntToStr(n) ==
    IF n < 10 THEN <<DigitChars[n + 1]>>
    ELSE IntToStr(n \div 10) \o <<DigitChars[(n % 10) + 1]>>

\* sep.join(parts)
RECURSIVE Join(_, _)
Join(parts, sep) ==
    IF parts = <<>> THEN <<>>
    ELSE IF Len(parts) = 1 THEN parts[1]
    ELSE parts[1] \o <<sep>> \o Join(Tail(parts), sep)

-----------------------------------------------------------------------------
(* class Version *)

\* Version.__init__ on a str: ok with the version_tuple, or (ok = FALSE) the
\* ValueError of int(x).  The alphabet of the model has digits, "." and
\* letters only.
VersionInit(s) ==
    LET parts == Split(s, ".") IN
    IF \A i \in 1..Len(parts) : IsIntStr(parts[i])
    THEN [ok |-> TRUE, version_tuple |-> [i \in 1..Len(parts) |-> ParseInt(parts[i])]]
    ELSE [ok |-> FALSE, version_tuple |-> <<>>]

\* Version.__str__
VersionStr(v) == Join([i \in 1..Len(v) |-> IntToStr(v[i])], ".")

\* Version.__eq__
VersionEq(a, b) == VersionStr(a) = VersionStr(b)

\* zip_longest(self, other, fillvalue=0)
ZipLongest(a, b) ==
    LET n == IF Len(a) > Len(b) THEN Len(a) ELSE Len(b) IN
    [i \in 1..n |-> << IF i <= Len(a) THEN a[i] ELSE 0,
                       IF i <= Len(b) THEN b[i] ELSE 0 >>]

\* zip(self, other): stops at the shorter operand
ZipShortest(a, b) ==
    LET n == IF Len(a) < Len(b) THEN Len(a) ELSE Len(b) IN
    [i \in 1..n |-> <<a[i], b[i]>>]

RECURSIVE GtLoop(_)
GtLoop(pairs) ==
    IF pairs = <<>> THEN FALSE
    ELSE IF Head(pairs)[1] = Head(pairs)[2] THEN GtLoop(Tail(pairs))
    ELSE Head(pairs)[1] > Head(pairs)[2]

VersionGt_zip(a, b) == GtLoop(ZipShortest(a, b))

\* Version.__gt__
VersionGt(a, b) == GtLoop(ZipLongest(a, b))

\* Version.__lt__ as functools.total_ordering derives it from __gt__:
\* not (a > b) and a != b
VersionLt(a, b) == ~VersionGt(a, b) /\ ~VersionEq(a, b)

-----------------------------------------------------------------------------
(* Inputs of the Version comparison *)

VerComps == { <<"0">>, <<"1">>, <<"9">>, <<"1", "0">> }

RECURSIVE DottedOfLen(_)
DottedOfLen(n) ==
    IF n = 1 THEN VerComps
    ELSE { p \o <<".">> \o c : p \in DottedOfLen(n - 1), c \in VerComps }

DottedStrs == UNION { DottedOfLen(n) : n \in 1..MaxLen }

NoComparison ==
    [stage |-> "input", a |-> <<>>, b |-> <<>>,
     gt |-> FALSE, eq |-> FALSE, lt |-> FALSE]

NoOutcome == [stage |-> "input", status |-> "", version |-> <<>>,
              item |-> 0, date |-> 0, requests |-> 0]

IdleVersion == va = <<>> /\ vb = <<>> /\ vcmp = NoComparison

IdleReleases ==
    /\ rel_data = <<>>
    /\ rel_spec = [substitutions |-> <<>>, tags |-> FALSE, set_date |-> FALSE]
    /\ rel_out = NoOutcome

EmptyMap == [x \in {} |-> 0]

NoManifest == [runtime_version |-> <<>>, modules |-> <<>>]

IdleMain ==
    /\ pc = "unused" /\ err = ""
    /\ config = [runtime |-> <<>>, modules |-> <<>>]
    /\ lk_task = <<>> /\ resolver = <<>>
    /\ new_versions = EmptyMap
    /\ manifest_file = [parse_ok |-> TRUE, content |-> NoManifest]
    /\ manifest = NoManifest
    /\ current_versions = EmptyMap
    /\ env = EmptyMap
    /\ template_dir = {} /\ outputs = EmptyMap /\ attempted = {}
    /\ remote_sha256 = <<>> /\ tasks = <<>>
    /\ cache_dir = FALSE /\ cache = EmptyMap /\ requests = {}
    /\ runs = 0

InitVersion ==
    /\ va \in DottedStrs
    /\ vb \in DottedStrs
    /\ vcmp = NoComparison
    /\ IdleReleases
    /\ IdleMain

\* a = Version(va); b = Version(vb); a > b, a == b, a < b
CompareVersions ==
    /\ vcmp.stage = "input"
    /\ LET a == VersionInit(va).version_tuple
           b == VersionInit(vb).version_tuple
       IN vcmp' = [stage |-> "compared", a |-> a, b |-> b,
                   gt |-> VersionGt(a, b),
                   eq |-> VersionEq(a, b),
                   lt |-> VersionLt(a, b)]
    /\ UNCHANGED <<va, vb, relVars, mainVars>>

NextVersion == CompareVersions

SpecVersion == InitVersion /\ [][NextVersion]_vars

-----------------------------------------------------------------------------
(* Reference ordering: zero-padded integer tuples, compared                *)
(* lexicographically                                                       *)

PadTo(v, n) == [i \in 1..n |-> IF i <= Len(v) THEN v[i] ELSE 0]

MaxOf(x, y) == IF x > y THEN x ELSE y

PaddedGreater(a, b) ==
    LET n == MaxOf(Len(a), Len(b))
        pa == PadTo(a, n)
        pb == PadTo(b, n)
    IN \E i \in 1..n : pa[i] > pb[i] /\ \A j \in 1..(i - 1) : pa[j] = pb[j]

PaddedEqual(a, b) ==
    LET n == MaxOf(Len(a), Len(b)) IN PadTo(a, n) = PadTo(b, n)

\* C4: for all Versions a and b built from dotted integer strings, a > b
\* holds iff the zero-padded tuple of a is lexicographically greater than
\* the equally padded tuple of b.
C4_GtIsPaddedLex ==
    vcmp.stage = "compared" => (vcmp.gt <=> PaddedGreater(vcmp.a, vcmp.b))

\* 1.10 > 1.9 has been evaluated, and so has a pair of different lengths
C4_Witness ==
    /\ vcmp.stage = "compared"
    /\ vcmp.a = <<1, 10>> /\ vcmp.b = <<1, 9>> /\ vcmp.gt

\* C5: a == b iff the zero-padded tuples are equal, and exactly one of
\* a < b, a == b, a > b holds for every pair.
C5_EqIsPaddedEq ==
    vcmp.stage = "compared" =>
        /\ vcmp.eq <=> PaddedEqual(vcmp.a, vcmp.b)
        /\ \/ vcmp.lt /\ ~vcmp.eq /\ ~vcmp.gt
           \/ ~vcmp.lt /\ vcmp.eq /\ ~vcmp.gt
           \/ ~vcmp.lt /\ ~vcmp.eq /\ vcmp.gt

-----------------------------------------------------------------------------
(* get_version_github_releases *)

\* s starts with the non-empty text old
StartsWith(s, old) ==
    Len(s) >= Len(old) /\ SubSeq(s, 1, Len(old)) = old

\* str.replace(old, new) for a non-empty old: every non-overlapping
\* occurrence, scanning from the left
RECURSIVE Replace(_, _, _)
Replace(s, old, new) ==
    IF s = <<>> THEN <<>>
    ELSE IF StartsWith(s, old)
         THEN new \o Replace(SubSeq(s, Len(old) + 1, Len(s)), old, new)
         ELSE <<Head(s)>> \o Replace(Tail(s), old, new)

\* for sub in spec.get("substitutions", []): version_str = version_str.replace(...)
RECURSIVE ApplySubs(_, _)
ApplySubs(s, subs) ==
    IF subs = <<>> THEN s
    ELSE ApplySubs(Replace(s, Head(subs)[1], Head(subs)[2]), Tail(subs))

\* The loop over data: the list of (version, item) pairs; an item is
\* identified by its index in data (no two API entries are equal dicts)
RECURSIVE ParsedFrom(_, _, _)
ParsedFrom(data, subs, i) ==
    IF i > Len(data) THEN <<>>
    ELSE LET v == VersionInit(ApplySubs(data[i], subs)) IN
         IF v.ok
         THEN <<[version |-> v.version_tuple, item |-> i]>>
              \o ParsedFrom(data, subs, i + 1)
         ELSE ParsedFrom(data, subs, i + 1)

ParsedVersions(data, subs) == ParsedFrom(data, subs, 1)

\* (version, item) > (version, item) on tuples: the first elements that are
\* not == decide; equal versions hand the decision to dict > dict, which
\* raises TypeError
PairGt(x, y) ==
    IF ~VersionEq(x.version, y.version)
    THEN [raised |-> FALSE, gt |-> VersionGt(x.version, y.version)]
    ELSE IF x.item = y.item
         THEN [raised |-> FALSE, gt |-> FALSE]
         ELSE [raised |-> TRUE, gt |-> FALSE]

\* max(versions): keeps the running maximum, replaced by an element that
\* is > than it
RECURSIVE MaxLoop(_, _)
MaxLoop(rest, cur) ==
    IF rest = <<>> THEN [status |-> "ok", max |-> cur]
    ELSE LET c == PairGt(Head(rest), cur) IN
         IF c.raised THEN [status |-> "TypeError", max |-> cur]
         ELSE MaxLoop(Tail(rest), IF c.gt THEN Head(rest) ELSE cur)

MaxPair(versions) ==
    IF versions = <<>>
    THEN [status |-> "ValueError", max |-> [version |-> <<>>, item |-> 0]]
    ELSE MaxLoop(Tail(versions), Head(versions))

RelNames ==
    { <<"v", "1">>, <<"1">>, <<"v", "2">>, <<"1", ".", "0">>,
      <<"n", "i", "g", "h", "t", "l", "y">> }

RelData == UNION { [1..n -> RelNames] : n \in 0..MaxItems }

RelSubstitutions == { <<>>, << << <<"v">>, <<>> >> >> }

InitReleases ==
    /\ rel_data \in RelData
    /\ rel_spec \in [substitutions : RelSubstitutions,
                     tags : BOOLEAN, set_date : BOOLEAN]
    /\ rel_out = NoOutcome
    /\ IdleVersion
    /\ IdleMain

\* The resolver, from the response to the returned Version.  The date of
\* item i is modelled as i; with tags it takes a second request.
GetVersionGithubReleases ==
    /\ rel_out.stage = "input"
    /\ LET m == MaxPair(ParsedVersions(rel_data, rel_spec.substitutions)) IN
       rel_out' =
         IF m.status # "ok"
         THEN [stage |-> "done", status |-> m.status, version |-> <<>>,
               item |-> 0, date |-> 0, requests |-> 1]
         ELSE [stage |-> "done", status |-> "ok",
               version |-> m.max.version, item |-> m.max.item,
               date |-> IF rel_spec.set_date THEN m.max.item ELSE 0,
               requests |-> IF rel_spec.set_date /\ rel_spec.tags
                            THEN 2 ELSE 1]
    /\ UNCHANGED <<rel_data, rel_spec, verVars, mainVars>>

NextReleases == GetVersionGithubReleases

SpecReleases == InitReleases /\ [][NextReleases]_vars

\* C6: for every list in which at least one name parses as a Version after
\* the substitutions, the lookup does not abort and returns a maximum of
\* the parsed versions, lists where two names yield the same version
\* included.
C6_MaxOfParsed ==
    LET parsed == ParsedVersions(rel_data, rel_spec.substitutions) IN
    (rel_out.stage = "done" /\ parsed # <<>>) =>
        /\ rel_out.status = "ok"
        /\ \E i \in 1..Len(parsed) : parsed[i].version = rel_out.version
        /\ \A i \in 1..Len(parsed) :
               ~PaddedGreater(parsed[i].version, rel_out.version)

-----------------------------------------------------------------------------
(* Values, URLs, digests and the manifest *)

ModuleNames == <<"foo", "bar", "baz", "qux">>

ResolverTypes == {"scrape", "github_branches", "github_releases"}

\* the three known types and one unknown type
SpecTypes == ResolverTypes \cup {"rss"}

\* a Version object (date is None, shown as 0, unless a resolver set it)
VersionVal(t) ==
    [kind |-> "Version", fn |-> "", version_tuple |-> t, date |-> 0]

\* the coroutine object that calling an async get_version_* function yields
CoroutineOf(type) ==
    [kind |-> "coroutine", fn |-> type, version_tuple |-> <<>>, date |-> 0]

TarGz == <<".", "t", "a", "r", ".", "g", "z">>

\* spec["source_url"].format(version=...): the URL keeps its directory part
\* (dir) apart from its last path component (name)
FormatSourceUrl(source_url, v) ==
    [dir |-> source_url.dir,
     name |-> source_url.stem \o <<"-">> \o VersionStr(v) \o TarGz]

\* Path(url).name
PathName(url) == url.name

\* The body the server streams for a URL, chunk by chunk; every URL serves
\* its own bytes
Body(url) == [k \in 1..BodyLen |-> [dir |-> url.dir, name |-> url.name, k |-> k]]

MinOf(x, y) == IF x < y THEN x ELSE y

\* sha256.update(data): the hash state is the bytes taken in so far
Sha256Update(h, data) == h \o data

\* sha256.hexdigest(): one digest per byte string
Sha256Hexdigest(h) == [kind |-> "sha256", data |-> h]

\* while True: data = file_.read(2 ** 16); if not data: break; update(data)
RECURSIVE ReadLoop(_, _)
ReadLoop(rest, h) ==
    IF rest = <<>> THEN h
    ELSE LET n == MinOf(ReadSize, Len(rest)) IN
         ReadLoop(SubSeq(rest, n + 1, Len(rest)),
                  Sha256Update(h, SubSeq(rest, 1, n)))

HashFile(content) == Sha256Hexdigest(ReadLoop(content, <<>>))

NoDigest == [kind |-> "none", data |-> <<>>]

VersionChars(s) == \A i \in 1..Len(s) : IsDigit(s[i]) \/ s[i] = "."

EndsWith(s, suf) ==
    Len(s) >= Len(suf) /\ SubSeq(s, Len(s) - Len(suf) + 1, Len(s)) = suf

\* re.search(r"-([0-9\.]+)\.tar\.gz$", url): "/" and "-" are outside the
\* character class, so a match lies in the last path component
SearchVersion(url) ==
    LET name == url.name
        body == SubSeq(name, 1, Len(name) - Len(TarGz))
        starts == { i \in 1..(Len(body) - 1) :
                      /\ body[i] = "-"
                      /\ VersionChars(SubSeq(body, i + 1, Len(body))) }
    IN IF EndsWith(name, TarGz) /\ starts # {}
       THEN [matched |-> TRUE,
             group |-> SubSeq(body, (CHOOSE i \in starts :
                                        \A j \in starts : i <= j) + 1,
                              Len(body))]
       ELSE [matched |-> FALSE, group |-> <<>>]

RECURSIVE CurrentLoop(_, _)
CurrentLoop(mods, versions) ==
    IF mods = <<>> THEN [status |-> "ok", versions |-> versions]
    ELSE LET m == SearchVersion(Head(mods).sources[1].url) IN
         IF ~m.matched
         THEN [status |-> "AttributeError", versions |-> versions]
         ELSE LET v == VersionInit(m.group) IN
              IF ~v.ok THEN [status |-> "ValueError", versions |-> versions]
              ELSE CurrentLoop(Tail(mods),
                       (Head(mods).name :> v.version_tuple) @@ versions)

\* get_current_versions(manifest)
CurrentVersionsOf(m) ==
    LET r == VersionInit(m.runtime_version) IN
    IF ~r.ok THEN [status |-> "ValueError", versions |-> EmptyMap]
    ELSE CurrentLoop(m.modules, "runtime" :> r.version_tuple)

\* A manifest module pinned at version v, with the digest of that archive
ManifestModule(spec, v) ==
    LET url == FormatSourceUrl(spec.source_url, v) IN
    [name |-> spec.name,
     sources |-> <<[url |-> url, sha256 |-> Sha256Hexdigest(Body(url))]>>]

PinnedManifest(specs) ==
    [runtime_version |-> <<"1">>,
     modules |-> [i \in 1..Len(specs) |-> ManifestModule(specs[i], <<1>>)]]

ModuleSpec(i, type) ==
    [name |-> ModuleNames[i], type |-> type,
     source_url |-> [dir |-> "a", stem |-> <<ModuleNames[i]>>]]

RuntimeSpec(type) ==
    [name |-> "runtime", type |-> type,
     source_url |-> [dir |-> "a", stem |-> <<"runtime">>]]

\* [config["runtime"]] + config["modules"]
SpecsOf(c) == <<c.runtime>> \o c.modules

-----------------------------------------------------------------------------
(* render_templates *)

Ref(name, suffix, attr) == [var |-> <<name, suffix>>, attr |-> attr]

\* The template files, by stem ("<stem>.j2" renders to "<stem>"): the
\* variable references of each, {{ x }} or {{ x.date }}
TemplateText ==
    ("runtime" :> <<Ref("runtime", "_version", FALSE)>>)
    @@ ("module" :> <<Ref("runtime", "_version", FALSE),
                      Ref("foo", "_sha256", FALSE)>>)
    @@ ("dated" :> <<Ref("foo", "_version", TRUE)>>)

TemplateStems == DOMAIN TemplateText

Printed(v) == [kind |-> "text", of |-> v]

EmptyText == [kind |-> "empty", of |-> NoDigest]

OldText == <<[kind |-> "old", of |-> NoDigest]>>

\* x.date of a defined x: the date of a Version; an object without the
\* attribute gives an Undefined
AttrOf(v) ==
    IF v.kind = "Version" THEN Printed([kind |-> "date", date |-> v.date])
    ELSE EmptyText

\* jinja2.Template(text).render(**env) with the default Undefined: a
\* missing variable prints as the empty string; an attribute of a missing
\* variable raises UndefinedError
RECURSIVE RenderRefs(_, _, _)
RenderRefs(refs, e, out) ==
    IF refs = <<>> THEN [status |-> "ok", text |-> out]
    ELSE LET r == Head(refs) IN
         IF r.var \in DOMAIN e
         THEN RenderRefs(Tail(refs), e,
                  Append(out, IF r.attr THEN AttrOf(e[r.var])
                              ELSE Printed(e[r.var])))
         ELSE IF r.attr THEN [status |-> "UndefinedError", text |-> out]
         ELSE RenderRefs(Tail(refs), e, Append(out, EmptyText))

Render(t, e) == RenderRefs(TemplateText[t], e, <<>>)

\* One iteration of the loop over template_dir.glob("*.j2"): read the
\* template, open the output for writing (which truncates it), render,
\* write
RenderTemplate(t) ==
    /\ pc = "render"
    /\ t \in template_dir \ attempted
    /\ attempted' = attempted \cup {t}
    /\ LET r == Render(t, env) IN
       IF r.status = "ok"
       THEN /\ outputs' = (t :> r.text) @@ outputs
            /\ UNCHANGED <<pc, err>>
       ELSE /\ outputs' = (t :> <<>>) @@ outputs
            /\ pc' = "failed"
            /\ err' = r.status
    /\ UNCHANGED <<verVars, relVars, inputVars, lookupVars, new_versions,
                   manifest, current_versions, env, template_dir, sumVars,
                   runs>>

\* The loop is over: render_templates and main return
RenderDone ==
    /\ pc = "render"
    /\ attempted = template_dir
    /\ pc' = "done"
    /\ UNCHANGED <<verVars, relVars, err, inputVars, lookupVars, new_versions,
                   manifest, current_versions, env, renderVars, sumVars, runs>>

-----------------------------------------------------------------------------
(* get_latest_version, get_latest_versions *)

\* main up to the gather of get_latest_versions: one task per spec
MainStart ==
    /\ pc = "start"
    /\ pc' = "lookup"
    /\ lk_task' = [i \in 1..Len(SpecsOf(config)) |-> "pending"]
    /\ resolver' = [i \in 1..Len(SpecsOf(config)) |-> "none"]
    /\ UNCHANGED <<verVars, relVars, err, inputVars, new_versions, manifest,
                   current_versions, env, renderVars, sumVars, runs>>

\* The task of get_latest_version(spec): it calls the async get_version_*
\* function, which creates the coroutine object, and returns that object
\* without awaiting it.  The task has no suspension point.
LookupTask(i) ==
    /\ pc = "lookup"
    /\ i \in 1..Len(lk_task)
    /\ lk_task[i] = "pending"
    /\ IF SpecsOf(config)[i].type \in ResolverTypes
       THEN /\ resolver' = [resolver EXCEPT ![i] = "created"]
            /\ lk_task' = [lk_task EXCEPT ![i] = "returned"]
       ELSE /\ lk_task' = [lk_task EXCEPT ![i] = "raised"]
            /\ UNCHANGED resolver
    /\ UNCHANGED <<verVars, relVars, pc, err, inputVars, new_versions,
                   manifest, current_versions, env, renderVars, sumVars, runs>>

\* The value a finished task hands to gather
TaskResult(i) == CoroutineOf(SpecsOf(config)[i].type)

\* gather has every result; the dict comprehension pairs them with the names
GatherReturn ==
    /\ pc = "lookup"
    /\ \A i \in 1..Len(lk_task) : lk_task[i] = "returned"
    /\ new_versions' =
         [n \in { SpecsOf(config)[i].name : i \in 1..Len(lk_task) } |->
            TaskResult(CHOOSE i \in 1..Len(lk_task) :
                          /\ SpecsOf(config)[i].name = n
                          /\ \A j \in 1..Len(lk_task) :
                                SpecsOf(config)[j].name = n => j <= i)]
    /\ pc' = "load_manifest"
    /\ UNCHANGED <<verVars, relVars, err, inputVars, lookupVars, manifest,
                   current_versions, env, renderVars, sumVars, runs>>

\* A task raised ValueError: gather propagates it and asyncio.run cancels
\* what is left
GatherRaise ==
    /\ pc = "lookup"
    /\ \E i \in 1..Len(lk_task) : lk_task[i] = "raised"
    /\ lk_task' = [i \in 1..Len(lk_task) |->
                     IF lk_task[i] = "pending" THEN "cancelled" ELSE lk_task[i]]
    /\ pc' = "failed"
    /\ err' = "ValueError"
    /\ UNCHANGED <<verVars, relVars, inputVars, resolver, new_versions,
                   manifest, current_versions, env, renderVars, sumVars, runs>>

-----------------------------------------------------------------------------
(* load_manifest, get_current_versions *)

LoadManifest ==
    /\ pc = "load_manifest"
    /\ IF manifest_file.parse_ok
       THEN /\ manifest' = manifest_file.content
            /\ pc' = "current_versions"
            /\ UNCHANGED err
       ELSE /\ pc' = "failed"
            /\ err' = "ParseError"
            /\ UNCHANGED manifest
    /\ UNCHANGED <<verVars, relVars, inputVars, lookupVars, new_versions,
                   current_versions, env, renderVars, sumVars, runs>>

GetCurrentVersions ==
    /\ pc = "current_versions"
    /\ LET r == CurrentVersionsOf(manifest) IN
       IF r.status = "ok"
       THEN /\ current_versions' = r.versions
            /\ pc' = "template_vars"
            /\ UNCHANGED err
       ELSE /\ pc' = "failed"
            /\ err' = r.status
            /\ UNCHANGED current_versions
    /\ UNCHANGED <<verVars, relVars, inputVars, lookupVars, new_versions,
                   manifest, env, renderVars, sumVars, runs>>

-----------------------------------------------------------------------------
(* get_template_vars *)

Key(name, suffix) == <<name, suffix>>

UrlVal(url) == [kind |-> "url", dir |-> url.dir, name |-> url.name]

DateVal(v) == [kind |-> "date", date |-> v.date]

\* for mod in manifest["modules"]: if mod["name"] == name:
\*     env[f"{name}_sha256"] = mod["sources"][0]["sha256"]
RECURSIVE ManifestSha(_, _, _)
ManifestSha(name, mods, e) ==
    IF mods = <<>> THEN e
    ELSE ManifestSha(name, Tail(mods),
             IF Head(mods).name = name
             THEN (Key(name, "_sha256") :> Head(mods).sources[1].sha256) @@ e
             ELSE e)

NeedsFreshDigest_changed(new, current) == ~VersionEq(new, current)

\* if new_versions[name] > current_versions[name]
NeedsFreshDigest(new, current) == VersionGt(new, current)

\* The loop over config["modules"]: the environment and the batch, or the
\* exception of the first statement that raises
RECURSIVE TemplateLoop(_, _, _)
TemplateLoop(mods, e, batch) ==
    IF mods = <<>> THEN [status |-> "ok", env |-> e, batch |-> batch]
    ELSE
      LET spec == Head(mods)
          name == spec.name
      IN
      IF name \notin DOMAIN new_versions
      THEN [status |-> "KeyError", env |-> e, batch |-> batch]
      ELSE IF new_versions[name].kind # "Version"
      THEN [status |-> "AttributeError", env |-> e, batch |-> batch]
      ELSE IF name \notin DOMAIN current_versions
      THEN [status |-> "KeyError", env |-> e, batch |-> batch]
      ELSE
        LET nv == new_versions[name]
            url == FormatSourceUrl(spec.source_url, nv.version_tuple)
            e1 == (Key(name, "_version_date") :> DateVal(nv))
                  @@ (Key(name, "_source_url") :> UrlVal(url))
                  @@ (Key(name, "_version") :> nv)
                  @@ e
        IN IF NeedsFreshDigest(nv.version_tuple, current_versions[name])
           THEN TemplateLoop(Tail(mods), e1,
                    Append(batch, [name |-> name, url |-> url]))
           ELSE TemplateLoop(Tail(mods),
                    ManifestSha(name, manifest.modules, e1), batch)

NewTask == [pc |-> "start", got |-> 0, cached |-> FALSE, digest |-> NoDigest]

\* get_template_vars up to the gather of get_sha256_set: the loop, then
\* .cache is made and one get_sha256 task per batch entry is created
TemplateVarsCall ==
    /\ pc = "template_vars"
    /\ LET r == TemplateLoop(config.modules,
                    Key("runtime", "_version") :> new_versions["runtime"],
                    <<>>)
       IN IF r.status = "ok"
          THEN /\ env' = r.env
               /\ remote_sha256' = r.batch
               /\ tasks' = [i \in 1..Len(r.batch) |-> NewTask]
               /\ cache_dir' = TRUE
               /\ pc' = "gather"
               /\ UNCHANGED err
          ELSE /\ pc' = "failed"
               /\ err' = r.status
               /\ UNCHANGED <<env, remote_sha256, tasks, cache_dir>>
    /\ UNCHANGED <<verVars, relVars, inputVars, lookupVars, new_versions,
                   manifest, current_versions, renderVars, cache, requests,
                   runs>>

\* gather has every digest: dict(zip(sha256_vars, sums)), env.update, return
TemplateVarsReturn ==
    /\ pc = "gather"
    /\ \A i \in 1..Len(tasks) : tasks[i].pc = "done"
    /\ env' = [k \in { Key(remote_sha256[i].name, "_sha256") :
                          i \in 1..Len(tasks) } |->
                 tasks[CHOOSE i \in 1..Len(tasks) :
                          Key(remote_sha256[i].name, "_sha256") = k].digest]
              @@ env
    /\ pc' = "render"
    /\ UNCHANGED <<verVars, relVars, err, inputVars, lookupVars, new_versions,
                   manifest, current_versions, renderVars, sumVars, runs>>

\* A download raised: gather propagates it, asyncio.run cancels the tasks
\* still in flight and get_template_vars raises
TemplateVarsRaise ==
    /\ pc = "gather"
    /\ \E i \in 1..Len(tasks) : tasks[i].pc = "failed"
    /\ tasks' = [i \in 1..Len(tasks) |->
                   IF tasks[i].pc \in {"start", "downloading"}
                   THEN [tasks[i] EXCEPT !.pc = "cancelled"]
                   ELSE tasks[i]]
    /\ pc' = "failed"
    /\ err' = "TransportError"
    /\ UNCHANGED <<verVars, relVars, inputVars, lookupVars, new_versions,
                   manifest, current_versions, env, renderVars, remote_sha256,
                   cache_dir, cache, requests, runs>>

-----------------------------------------------------------------------------
(* get_sha256 *)

OutputPathExists_never(f) == FALSE

\* output_path.exists()
OutputPathExists(f) == f \in DOMAIN cache

\* Every task created before task i has run to its first suspension point
\* (the event loop starts tasks in the order gather created them)
StartedBefore(i) == \A j \in 1..(i - 1) : tasks[j].pc # "start"

AllStarted == \A j \in 1..Len(tasks) : tasks[j].pc # "start"

\* get_sha256 up to its first suspension point.  A cached file is hashed and
\* the task is done; otherwise the file is created empty and the GET is
\* issued
Sha256Start(i) ==
    /\ pc = "gather"
    /\ i \in 1..Len(tasks)
    /\ tasks[i].pc = "start"
    /\ StartedBefore(i)
    /\ LET f == PathName(remote_sha256[i].url) IN
       IF OutputPathExists(f)
       THEN /\ tasks' = [tasks EXCEPT ![i] =
                           [pc |-> "done", got |-> 0, cached |-> TRUE,
                            digest |-> HashFile(cache[f])]]
            /\ UNCHANGED <<cache, requests>>
       ELSE /\ cache' = (f :> <<>>) @@ cache
            /\ requests' = requests \cup {<<runs, remote_sha256[i].url>>}
            /\ tasks' = [tasks EXCEPT ![i].pc = "downloading"]
    /\ UNCHANGED <<verVars, relVars, pc, err, inputVars, lookupVars,
                   new_versions, manifest, current_versions, env, renderVars,
                   remote_sha256, cache_dir, runs>>

\* async for chunk in response.aiter_raw(): file_.write(chunk)
Sha256Chunk(i) ==
    /\ pc = "gather"
    /\ i \in 1..Len(tasks)
    /\ tasks[i].pc = "downloading"
    /\ AllStarted
    /\ tasks[i].got < BodyLen
    /\ LET f == PathName(remote_sha256[i].url) IN
       cache' = [cache EXCEPT ![f] =
                    Append(@, Body(remote_sha256[i].url)[tasks[i].got + 1])]
    /\ tasks' = [tasks EXCEPT ![i].got = @ + 1]
    /\ UNCHANGED <<verVars, relVars, pc, err, inputVars, lookupVars,
                   new_versions, manifest, current_versions, env, renderVars,
                   remote_sha256, cache_dir, requests, runs>>

\* The connection or the stream fails: the exception leaves get_sha256, the
\* file stays as it is
Sha256Fail(i) ==
    /\ pc = "gather"
    /\ i \in 1..Len(tasks)
    /\ tasks[i].pc = "downloading"
    /\ AllStarted
    /\ tasks[i].got < BodyLen
    /\ tasks' = [tasks EXCEPT ![i].pc = "failed"]
    /\ UNCHANGED <<verVars, relVars, pc, err, inputVars, lookupVars,
                   new_versions, manifest, current_versions, env, renderVars,
                   remote_sha256, cache_dir, cache, requests, runs>>

\* The stream is exhausted: the file is closed, read back and hashed
Sha256Finish(i) ==
    /\ pc = "gather"
    /\ i \in 1..Len(tasks)
    /\ tasks[i].pc = "downloading"
    /\ AllStarted
    /\ tasks[i].got = BodyLen
    /\ tasks' = [tasks EXCEPT ![i].pc = "done",
                              ![i].digest =
                                 HashFile(cache[PathName(remote_sha256[i].url)])]
    /\ UNCHANGED <<verVars, relVars, pc, err, inputVars, lookupVars,
                   new_versions, manifest, current_versions, env, renderVars,
                   remote_sha256, cache_dir, cache, requests, runs>>

-----------------------------------------------------------------------------
(* Specifications *)

TemplateSets == SUBSET TemplateStems

MainConfigs ==
    UNION { { [runtime |-> RuntimeSpec(rt),
               modules |-> [i \in 1..n |-> ModuleSpec(i, ts[i])]] :
              rt \in SpecTypes, ts \in [1..n -> SpecTypes] } :
            n \in 0..MaxModules }

AllModuleSpecs == [i \in 1..MaxModules |-> ModuleSpec(i, "scrape")]

\* a manifest whose first module's source is not a -<version>.tar.gz
UnmatchedManifest ==
    LET m == PinnedManifest(AllModuleSpecs) IN
    [m EXCEPT !.modules[1].sources[1].url.name = <<"foo", ".", "z", "i", "p">>]

MainManifestFiles ==
    { [parse_ok |-> TRUE, content |-> PinnedManifest(AllModuleSpecs)],
      [parse_ok |-> TRUE, content |-> UnmatchedManifest],
      [parse_ok |-> FALSE, content |-> NoManifest] }

\* One run of main
Init ==
    /\ IdleVersion /\ IdleReleases
    /\ pc = "start" /\ err = ""
    /\ config \in MainConfigs
    /\ lk_task = <<>> /\ resolver = <<>>
    /\ new_versions = EmptyMap
    /\ manifest_file \in MainManifestFiles
    /\ manifest = NoManifest
    /\ current_versions = EmptyMap
    /\ env = EmptyMap
    /\ template_dir \in TemplateSets
    /\ outputs \in { EmptyMap, [t \in template_dir |-> OldText] }
    /\ attempted = {}
    /\ remote_sha256 = <<>> /\ tasks = <<>>
    /\ cache_dir \in BOOLEAN /\ cache = EmptyMap /\ requests = {}
    /\ runs = 1

\* In main the batch of get_template_vars is never non-empty (new_versions
\* holds no Version), so no get_sha256 task exists
Next ==
    \/ MainStart
    \/ \E i \in 1..(MaxModules + 1) : LookupTask(i)
    \/ GatherReturn
    \/ GatherRaise
    \/ LoadManifest
    \/ GetCurrentVersions
    \/ TemplateVarsCall
    \/ TemplateVarsReturn
    \/ \E t \in TemplateStems : RenderTemplate(t)
    \/ RenderDone

Spec == Init /\ [][Next]_vars

\* get_template_vars called on Version values, run after run over one cache
ChecksumConfigs ==
    { [runtime |-> RuntimeSpec("scrape"),
       modules |-> << [name |-> "foo", type |-> "scrape",
                       source_url |-> [dir |-> "a", stem |-> <<"x">>]],
                      [name |-> "bar", type |-> "scrape",
                       source_url |-> [dir |-> "b", stem |-> <<s>>]] >>] :
      s \in {"x", "y"} }

ResolvedTuples == { <<0, 9>>, <<1>>, <<1, 0>>, <<2>> }

NewVersionMaps(c) ==
    LET names == { c.modules[i].name : i \in 1..Len(c.modules) } IN
    { ("runtime" :> VersionVal(<<1>>)) @@ [n \in names |-> VersionVal(f[n])] :
      f \in [names -> ResolvedTuples] }

InitChecksum ==
    /\ IdleVersion /\ IdleReleases
    /\ pc = "template_vars" /\ err = ""
    /\ config \in ChecksumConfigs
    /\ lk_task = <<>> /\ resolver = <<>>
    /\ new_versions \in NewVersionMaps(config)
    /\ manifest = PinnedManifest(config.modules)
    /\ manifest_file = [parse_ok |-> TRUE, content |-> manifest]
    /\ current_versions = CurrentVersionsOf(manifest).versions
    /\ env = EmptyMap
    /\ template_dir = {} /\ outputs = EmptyMap /\ attempted = {}
    /\ remote_sha256 = <<>> /\ tasks = <<>>
    /\ cache_dir = FALSE /\ cache = EmptyMap /\ requests = {}
    /\ runs = 1

\* The tool is run again: the cache directory is all that is kept
NextRun ==
    /\ pc \in {"render", "failed"}
    /\ runs < MaxRuns
    /\ runs' = runs + 1
    /\ new_versions' \in NewVersionMaps(config)
    /\ pc' = "template_vars"
    /\ err' = ""
    /\ env' = EmptyMap
    /\ remote_sha256' = <<>>
    /\ tasks' = <<>>
    /\ UNCHANGED <<verVars, relVars, inputVars, lookupVars, manifest,
                   current_versions, renderVars, cache_dir, cache, requests>>

NextChecksum ==
    \/ TemplateVarsCall
    \/ \E i \in 1..MaxModules : Sha256Start(i)
    \/ \E i \in 1..MaxModules : Sha256Chunk(i)
    \/ \E i \in 1..MaxModules : Sha256Fail(i)
    \/ \E i \in 1..MaxModules : Sha256Finish(i)
    \/ TemplateVarsReturn
    \/ TemplateVarsRaise
    \/ NextRun

SpecChecksum == InitChecksum /\ [][NextChecksum]_vars

-----------------------------------------------------------------------------
(* Properties of main (Spec) *)

\* C1: when get_latest_versions has returned, every resolver it dispatched
\* has run to completion and every value of the returned mapping is the
\* Version its component's resolver produced, never an unfinished or
\* unstarted lookup.
C1_LookupsFinished ==
    DOMAIN new_versions # {} =>
        \A i \in 1..Len(lk_task) :
            /\ resolver[i] = "done"
            /\ new_versions[SpecsOf(config)[i].name].kind = "Version"

LookupErrors ==
    {"ValueError", "ParseError", "AttributeError", "KeyError", "TransportError"}

\* C3: render_templates creates or modifies an output file only after every
\* version lookup, the manifest parse and every checksum fetch of the run
\* have succeeded; a run in which one of those steps fails has touched no
\* output file.
C3_NoPartialManifest ==
    /\ attempted # {} =>
          /\ \A i \in 1..Len(lk_task) : resolver[i] = "done"
          /\ manifest = manifest_file.content /\ manifest_file.parse_ok
          /\ \A i \in 1..Len(tasks) : tasks[i].pc = "done"
    /\ (pc = "failed" /\ err \in LookupErrors) => attempted = {}

ReferencesMissing(t, e) ==
    \E k \in 1..Len(TemplateText[t]) : TemplateText[t][k].var \notin DOMAIN e

\* C7: render_templates fails with an undefined-variable error whenever a
\* template references a variable absent from the environment, and never
\* writes output in which such a reference was silently replaced.
C7_UndefinedVariableFails ==
    \A t \in attempted :
        ReferencesMissing(t, env) =>
            /\ pc = "failed" /\ err = "UndefinedError"
            /\ outputs[t] = <<>>

-----------------------------------------------------------------------------
(* Properties of get_template_vars and the checksum fetcher (SpecChecksum) *)

BatchIndex(name) ==
    { i \in 1..Len(remote_sha256) : remote_sha256[i].name = name }

ManifestDigest(name) ==
    manifest.modules[CHOOSE k \in 1..Len(manifest.modules) :
                        manifest.modules[k].name = name].sources[1].sha256

\* C2: for every configured module, a resolved version strictly greater
\* than the pinned one puts its source URL in the batch and its
\* {name}_sha256 is the freshly computed digest; otherwise it is not in
\* the batch and {name}_sha256 is the digest of the manifest module's first
\* source.
C2_FreshOrManifestDigest ==
    pc \in {"gather", "render"} =>
      \A k \in 1..Len(config.modules) :
        LET spec == config.modules[k]
            name == spec.name
            nv == new_versions[name].version_tuple
        IN IF PaddedGreater(nv, current_versions[name])
           THEN /\ \E i \in BatchIndex(name) :
                      /\ remote_sha256[i].url =
                            FormatSourceUrl(spec.source_url, nv)
                      /\ pc = "render" =>
                            env[Key(name, "_sha256")] = tasks[i].digest
                /\ pc = "render" =>
                      env[Key(name, "_sha256")].kind = "sha256"
           ELSE /\ BatchIndex(name) = {}
                /\ env[Key(name, "_sha256")] = ManifestDigest(name)

\* get_template_vars has returned with foo newer than pinned and bar at
\* 1.0 against the pinned 1
C2_Witness ==
    /\ pc = "render"
    /\ new_versions["foo"].version_tuple = <<2>>
    /\ new_versions["bar"].version_tuple = <<1, 0>>
    /\ BatchIndex("foo") # {} /\ BatchIndex("bar") = {}
    /\ env[Key("foo", "_sha256")] # ManifestDigest("foo")
    /\ env[Key("bar", "_sha256")] = ManifestDigest("bar")

\* C8: get_sha256 for a URL whose basename is already a file of the cache
\* directory issues no download request, leaves the file's content
\* unchanged and returns the SHA-256 of that content.
C8_CachedNotDownloaded ==
    [][ \A i \in 1..Len(tasks) :
          ( /\ pc = "gather"
            /\ tasks[i].pc = "start"
            /\ PathName(remote_sha256[i].url) \in DOMAIN cache
            /\ tasks'[i].pc # "start" )
          => /\ requests' = requests
             /\ cache' = cache
             /\ tasks'[i].pc = "done"
             /\ tasks'[i].digest =
                   Sha256Hexdigest(cache[PathName(remote_sha256[i].url)]) ]_vars

\* In a second run a task found its file in the cache, left by the first
\* run, and is done without a request of this run
C8_Witness ==
    /\ runs = 2
    /\ \E i \in 1..Len(tasks) :
         /\ tasks[i].pc = "done" /\ tasks[i].cached
         /\ <<runs, remote_sha256[i].url>> \notin requests
         /\ <<1, remote_sha256[i].url>> \in requests
         /\ tasks[i].digest = Sha256Hexdigest(Body(remote_sha256[i].url))

\* C9: within one batch over distinct URLs the tasks target distinct cache
\* files, and each returned digest is the digest of the complete body
\* served at that name's URL.
C9_DistinctCacheFiles ==
    /\ \A i, j \in 1..Len(remote_sha256) :
          remote_sha256[i].url # remote_sha256[j].url =>
              PathName(remote_sha256[i].url) # PathName(remote_sha256[j].url)
    /\ \A i \in 1..Len(tasks) :
          tasks[i].pc = "done" =>
              tasks[i].digest = Sha256Hexdigest(Body(remote_sha256[i].url))

CompleteBodies(f) == { Body(r[2]) : r \in { q \in requests : PathName(q[2]) = f } }

\* C10: across any sequence of runs, failed and abandoned downloads
\* included, every file get_sha256 finds present in the cache directory
\* holds the complete body of a download that finished, and no digest is
\* computed from a partially written file.  (Stated for files no task of
\* the running batch is writing.)
C10_CacheEntriesComplete ==
    /\ pc = "template_vars" =>
          \A f \in DOMAIN cache : cache[f] \in CompleteBodies(f)
    /\ \A i \in 1..Len(tasks) :
          LET f == PathName(remote_sha256[i].url) IN
          ( /\ tasks[i].pc = "done" /\ tasks[i].cached
            /\ \A j \in 1..Len(tasks) :
                  j # i => PathName(remote_sha256[j].url) # f )
          => \E b \in CompleteBodies(f) : tasks[i].digest = Sha256Hexdigest(b)

====
